---- MODULE Spec2Model ----
(***************************************************************************)
(* MBTilesDataSource (core/src/data/mbtilesDataSource.cpp): a tile cache   *)
(* in a chain of tile-data sources.  The model covers the SQLite store     *)
(* (tables map and images, the tiles view, getTileData and storeTileData), *)
(* the single AsyncWorker queue, and the loadTileData / loadNextSource     *)
(* protocol with the next source of the chain.                             *)
(***************************************************************************)
EXTENDS Integers, Sequences, FiniteSets, TLC

(* ------------------------------ bounds --------------------------------- *)

\* number of TileTasks submitted to loadTileData in one run
NumTasks == 2

\* tile payload bytes are drawn from 1..MaxByte
MaxByte == 2

(* ------------------------------- data ---------------------------------- *)

Tasks == 1..NumTasks

\* TileID {x, y, z}: the two tiles of column 0 at zoom 1, whose stored rows
\* (1 and 0) are each other's request rows
TileIDs == { [z |-> 1, x |-> 0, y |-> 0], [z |-> 1, x |-> 0, y |-> 1] }

\* std::shared_ptr<std::vector<char>> that is null, written as a sequence that
\* is no payload (no payload holds a negative byte)
NoData == << -1 >>

\* the tileId of a TileTask that does not exist yet
NoTile == [z |-> -1, x |-> -1, y |-> -1]

\* std::vector<char> contents: the empty vector and the one-byte payloads
Blobs == { <<>> } \cup { <<b>> : b \in 1..MaxByte }

\* the payloads the next source answers with: two distinct non-empty contents
NextPayloads == { << 1 >>, << 2 >> }

\* RawDataSource::level of this source and of the next source in the chain
level == "level"

nextLevel == "next->level"

Levels == { level, nextLevel }

\* 1 << z
Pow2(z) == 2^z

\* the row flip without the - 1
tmsRow_noMinusOne(z, y) == Pow2(z) - y

\* Google TMS to WMTS row: (1 << z) - 1 - y
tmsRow(z, y) == Pow2(z) - 1 - y

\* MD5 of the payload, as a number: the bytes read as base-256 digits behind a
\* leading 1.  Distinct payloads have distinct digests (no collisions).
RECURSIVE md5(_)
md5(data) ==
    IF data = <<>> THEN 1
    ELSE md5(SubSeq(data, 1, Len(data) - 1)) * 256 + data[Len(data)]

\* DownloadTileTask::hasData(): a payload is present and not empty
hasData(rawTileData) == rawTileData # NoData /\ rawTileData # <<>>

(* ------------------------------ the store ------------------------------ *)

\* a plain INSERT: no conflicting row is deleted
ReplaceInto_insert(table, row, index) == table \cup { row }

\* REPLACE INTO a table with a unique index on the columns `index`: the rows
\* that conflict with the new row on those columns are deleted, then the row
\* is inserted.
ReplaceInto(table, row, index) ==
    { r \in table : \E c \in index : r[c] # row[c] } \cup { row }

\* CREATE UNIQUE INDEX map_index ON map (zoom_level, tile_column, tile_row)
map_index == { "zoom_level", "tile_column", "tile_row" }

\* CREATE UNIQUE INDEX images_id ON images (tile_id)
images_id == { "tile_id" }

\* CREATE VIEW tiles: map JOIN images ON images.tile_id = map.tile_id
tiles(mapT, imagesT) ==
    { [zoom_level |-> m.zoom_level, tile_column |-> m.tile_column,
       tile_row |-> m.tile_row, tile_data |-> i.tile_data] :
         <<m, i>> \in { p \in mapT \X imagesT : p[2].tile_id = p[1].tile_id } }

\* The rows the getTileData statement selects for a tile:
\* SELECT tile_data FROM tiles WHERE zoom_level = ? AND tile_column = ? AND tile_row = ?
selectTileData(mapT, imagesT, tileId) ==
    { r.tile_data : r \in { q \in tiles(mapT, imagesT) :
                              /\ q.zoom_level = tileId.z
                              /\ q.tile_column = tileId.x
                              /\ q.tile_row = tmsRow(tileId.z, tileId.y) } }

\* getTileData that selects by the request row, without the row flip
getTileData_noFlip(mapT, imagesT, tileId, throws) ==
    IF throws \/ { r \in tiles(mapT, imagesT) : /\ r.zoom_level = tileId.z
                                                /\ r.tile_column = tileId.x
                                                /\ r.tile_row = tileId.y } = {}
    THEN { [ret |-> FALSE, data |-> <<>>] }
    ELSE { [ret |-> TRUE, data |-> r.tile_data] :
             r \in { q \in tiles(mapT, imagesT) : /\ q.zoom_level = tileId.z
                                                  /\ q.tile_column = tileId.x
                                                  /\ q.tile_row = tileId.y } }

\* getTileData(_tileId, _data) on an empty _data: the possible outcomes
\* [ret, data].  throws: the statement threw, which is caught and logged.
getTileData(mapT, imagesT, tileId, throws) ==
    IF throws \/ selectTileData(mapT, imagesT, tileId) = {}
    THEN { [ret |-> FALSE, data |-> <<>>] }
    ELSE { [ret |-> TRUE, data |-> d] : d \in selectTileData(mapT, imagesT, tileId) }

\* storeTileData with the map row keyed without the row flip
storeTileData_noFlip(mapT, imagesT, tileId, data, mapThrows, imageThrows) ==
    [ map |-> IF mapThrows THEN mapT
              ELSE ReplaceInto(mapT, [zoom_level |-> tileId.z, tile_column |-> tileId.x,
                                      tile_row |-> tileId.y, tile_id |-> md5(data)],
                               map_index),
      images |-> IF imageThrows THEN imagesT
                 ELSE ReplaceInto(imagesT, [tile_id |-> md5(data), tile_data |-> data],
                                  images_id) ]

\* storeTileData with the images row keyed by the address instead of the digest
storeTileData_idPerTile(mapT, imagesT, tileId, data, mapThrows, imageThrows) ==
    [ map |-> IF mapThrows THEN mapT
              ELSE ReplaceInto(mapT, [zoom_level |-> tileId.z, tile_column |-> tileId.x,
                                      tile_row |-> tmsRow(tileId.z, tileId.y),
                                      tile_id |-> 1000 * (1 + tileId.y) + md5(data)],
                               map_index),
      images |-> IF imageThrows THEN imagesT
                 ELSE ReplaceInto(imagesT, [tile_id |-> 1000 * (1 + tileId.y) + md5(data),
                                            tile_data |-> data],
                                  images_id) ]

\* storeTileData that keeps an existing map row (INSERT OR IGNORE for REPLACE)
storeTileData_keepFirst(mapT, imagesT, tileId, data, mapThrows, imageThrows) ==
    [ map |-> IF mapThrows
                 \/ \E r \in mapT : /\ r.zoom_level = tileId.z
                                    /\ r.tile_column = tileId.x
                                    /\ r.tile_row = tmsRow(tileId.z, tileId.y)
              THEN mapT
              ELSE mapT \cup { [zoom_level |-> tileId.z, tile_column |-> tileId.x,
                                tile_row |-> tmsRow(tileId.z, tileId.y),
                                tile_id |-> md5(data)] },
      images |-> IF imageThrows THEN imagesT
                 ELSE ReplaceInto(imagesT, [tile_id |-> md5(data), tile_data |-> data],
                                  images_id) ]

\* storeTileData with both statements in one try block: a throw of the map
\* statement skips the images statement
storeTileData_oneTry(mapT, imagesT, tileId, data, mapThrows, imageThrows) ==
    [ map |-> IF mapThrows THEN mapT
              ELSE ReplaceInto(mapT, [zoom_level |-> tileId.z, tile_column |-> tileId.x,
                                      tile_row |-> tmsRow(tileId.z, tileId.y),
                                      tile_id |-> md5(data)],
                               map_index),
      images |-> IF mapThrows \/ imageThrows THEN imagesT
                 ELSE ReplaceInto(imagesT, [tile_id |-> md5(data), tile_data |-> data],
                                  images_id) ]

\* storeTileData(_tileId, _data): REPLACE INTO map, then REPLACE INTO images,
\* each in its own try block (a throw is logged and the other still runs).
storeTileData(mapT, imagesT, tileId, data, mapThrows, imageThrows) ==
    [ map |-> IF mapThrows THEN mapT
              ELSE ReplaceInto(mapT, [zoom_level |-> tileId.z, tile_column |-> tileId.x,
                                      tile_row |-> tmsRow(tileId.z, tileId.y),
                                      tile_id |-> md5(data)],
                               map_index),
      images |-> IF imageThrows THEN imagesT
                 ELSE ReplaceInto(imagesT, [tile_id |-> md5(data), tile_data |-> data],
                                  images_id) ]

\* what LOGE records for a storeTileData call
storeErrors(mapThrows, imageThrows) ==
    (IF mapThrows THEN { "put map" } ELSE {})
        \cup (IF imageThrows THEN { "put image" } ELSE {})

(* ----------------------- opening the database ------------------------- *)

\* number of times the model constructs a source on the same path
MaxOpens == 2

\* the _name arguments of the constructions
Names == { "N1", "N2" }

\* the _mime argument of the constructions
m_mime == "m_mime"

\* The tables and views SCHEMA creates, in the order of its CREATE statements
\* (the indexes are created between geocoder_data and tiles); these are the ten
\* names initMBTilesSchema looks for in sqlite_master.
SchemaRelations ==
    << "map", "grid_key", "keymap", "grid_utfgrid", "images", "metadata",
       "geocoder_data", "tiles", "grids", "grid_data" >>

Required == { SchemaRelations[i] : i \in 1..Len(SchemaRelations) }

\* CREATE UNIQUE INDEX name ON metadata (name)
name_index == { "name" }

\* the six rows initMBTilesSchema writes, in the order it writes them
MetadataRows(_name, _mimeType) ==
    << [name |-> "name", value |-> _name],
       [name |-> "type", value |-> "baselayer"],
       [name |-> "version", value |-> "1"],
       [name |-> "description", value |-> "MBTiles tile container created by Tangram ES."],
       [name |-> "format", value |-> _mimeType],
       [name |-> "compression", value |-> "identity"] >>

\* REPLACE INTO metadata (name, value) for the first n of the rows
RECURSIVE fillMetadata(_, _, _)
fillMetadata(table, rows, n) ==
    IF n = 0 THEN table
    ELSE ReplaceInto(fillMetadata(table, rows, n - 1), rows[n], name_index)

\* Where a construction throws, apart from the schema check: nowhere, in the
\* Database constructor, in db.exec(SCHEMA) after n of the relations were
\* created, in the metadata statements after n rows were written, or in the
\* MBTilesQueries constructor.
Faults ==
    { [at |-> "none", n |-> 0], [at |-> "open", n |-> 0], [at |-> "prepare", n |-> 0] }
        \cup { [at |-> "schema", n |-> k] : k \in 0..Len(SchemaRelations) }
        \cup { [at |-> "metadata", n |-> j] : j \in 0..5 }

\* initMBTilesSchema that installs whatever the schema check finds
initMBTilesSchema_alwaysInstall(master, meta, _name, _mimeType, checkThrows, fault) ==
    IF fault.at = "schema"
    THEN [ master |-> master \cup { SchemaRelations[i] : i \in 1..fault.n },
           meta |-> meta ]
    ELSE [ master |-> master \cup Required,
           meta |-> fillMetadata(meta, MetadataRows(_name, _mimeType),
                                 IF fault.at = "metadata" THEN fault.n ELSE 6) ]

\* initMBTilesSchema(db, _name, _mimeType): the schema and the metadata table
\* afterwards.  A throw of the sqlite_master query is caught and logged with
\* not all ten flags set; a throw of db.exec(SCHEMA) or of a metadata statement
\* is caught and logged, and what ran before it keeps its effect.
initMBTilesSchema(master, meta, _name, _mimeType, checkThrows, fault) ==
    IF ~checkThrows /\ Required \subseteq master
    THEN [ master |-> master, meta |-> meta ]
    ELSE IF fault.at = "schema"
    THEN [ master |-> master \cup { SchemaRelations[i] : i \in 1..fault.n },
           meta |-> meta ]
    ELSE [ master |-> master \cup Required,
           meta |-> fillMetadata(meta, MetadataRows(_name, _mimeType),
                                 IF fault.at = "metadata" THEN fault.n ELSE 6) ]

\* setupMBTiles(): m_db and the file afterwards.  m_db is reset when the
\* Database constructor throws or when the MBTilesQueries constructor throws,
\* which it does by itself when map, images or the tiles view is missing.
setupMBTiles(master, meta, _name, _mimeType, checkThrows, fault) ==
    IF fault.at = "open"
    THEN [ m_db |-> FALSE, master |-> master, meta |-> meta ]
    ELSE LET db == initMBTilesSchema(master, meta, _name, _mimeType, checkThrows, fault) IN
         [ m_db |-> fault.at # "prepare" /\ { "map", "images", "tiles" } \subseteq db.master,
           master |-> db.master,
           meta |-> db.meta ]

\* what the model remembers of a construction
Opened(_name, master, checkThrows, fault) ==
    [ name |-> _name,
      \* the schema check threw
      checkThrew |-> checkThrows /\ fault.at # "open",
      \* the check found all ten relations and initMBTilesSchema returned early
      sawComplete |-> fault.at # "open" /\ ~checkThrows /\ Required \subseteq master,
      \* a step of the installation (schema statements, metadata rows) threw
      installThrew |-> /\ fault.at \in { "schema", "metadata" }
                       /\ (checkThrows \/ ~(Required \subseteq master)),
      \* the construction ran without any throw
      clean |-> ~checkThrows /\ (fault.at = "none"
                                  \/ (fault.at \in { "schema", "metadata" }
                                      /\ Required \subseteq master)) ]

(* ------------------------------ the state ------------------------------ *)

VARIABLES
    m_offlineMode,   \* MBTilesDataSource::m_offlineMode
    m_db,            \* TRUE iff m_db holds an open database (setupMBTiles succeeded)
    next,            \* TRUE iff a next source is chained behind this one
    map,             \* rows of table map
    images,          \* rows of table images
    queue,           \* AsyncWorker: the work items enqueued and not yet run
    tasks,           \* the TileTasks, and what has happened to each
    renderRequested, \* requestRender() was called
    crashed,         \* the process died on a null dereference
    errLog,          \* what LOGE has recorded for storeTileData called directly
    storeThreads,    \* the threads that have run getTileData or storeTileData
    lastPut,         \* per tile, the payload of the latest storeTileData call
    sqlite_master,   \* the tables and views of the database file
    metadata,        \* rows of table metadata
    opened,          \* the constructions so far on the file, oldest first
    putLog           \* the [tile, data] of the storeTileData calls that are logged

vars == << m_offlineMode, m_db, next, map, images, queue, tasks, renderRequested,
           crashed, errLog, storeThreads, lastPut, sqlite_master, metadata, opened,
           putLog >>

\* a TileTask before loadTileData is called with it
NewTask ==
    [ tileId |-> NoTile,       \* TileTask::tileId()
      rawSource |-> level,     \* TileTask::rawSource
      rawTileData |-> NoData,  \* DownloadTileTask::rawTileData
      needsLoading |-> FALSE,  \* set by setNeedsLoading(true)
      ret |-> "none",          \* what loadTileData returned: "true", "false"
      atNext |-> "no",         \* the callback the next source holds: "_cb", "cb"
      nNext |-> 0,             \* calls of next->loadTileData with this task
      nGet |-> 0,              \* calls of getTileData for this task
      nPut |-> 0,              \* calls of storeTileData for this task
      ioErr |-> FALSE,         \* a store statement run for this task threw (LOGE)
      nextDone |-> FALSE,      \* the next source has finished this task
      nextData |-> NoData,     \* the payload the next source finished it with
      nRetry |-> 0,            \* calls of loadTileData with this task after the first
      cbs |-> <<>> ]           \* the calls of the caller's _cb.func(_task)

\* The state after construction on a path that held no file.  The
\* constructor's inputs decide the mode; the database either failed to open or
\* opened and was installed without a throw; setNext decides whether a next
\* source exists.  A newly created database file holds no tiles.
Init ==
    /\ m_offlineMode \in BOOLEAN
    /\ \E fault \in { [at |-> "none", n |-> 0], [at |-> "open", n |-> 0] } :
          LET db == setupMBTiles({}, {}, "N1", m_mime, FALSE, fault) IN
          /\ m_db = db.m_db
          /\ sqlite_master = db.master
          /\ metadata = db.meta
          /\ opened = << Opened("N1", {}, FALSE, fault) >>
    /\ next \in BOOLEAN
    /\ map = {}
    /\ images = {}
    /\ queue = <<>>
    /\ tasks = [t \in Tasks |-> NewTask]
    /\ renderRequested = FALSE
    /\ crashed = FALSE
    /\ errLog = {}
    /\ storeThreads = {}
    /\ lastPut = [tile \in TileIDs |-> NoData]
    /\ putLog = {}

(* --------------------------- the chain protocol ------------------------ *)

\* _cb.func(_task) called on `thread`: the caller sees the task's payload
callCb(task, thread) ==
    [task EXCEPT !.cbs = Append(@, [thread |-> thread,
                                    data |-> IF hasData(task.rawTileData)
                                             THEN task.rawTileData ELSE NoData])]

\* next->loadTileData(_task, callback): the next source either refuses the task
\* (returns false) or accepts it and will call `callback` later.
callNext(task, callback, accepts) ==
    [task EXCEPT !.nNext = @ + 1, !.atNext = IF accepts THEN callback ELSE "no"]

\* loadNextSource that always hands the caller's _cb to the next source
loadNextSource_untouched(task, accepts) ==
    IF ~next THEN [task |-> task, ret |-> FALSE]
    ELSE [task |-> callNext(task, "_cb", accepts), ret |-> accepts]

\* loadNextSource(_task, _cb): the task afterwards and the value returned
loadNextSource(task, accepts) ==
    IF ~next THEN [task |-> task, ret |-> FALSE]
    ELSE IF ~m_db THEN [task |-> callNext(task, "_cb", accepts), ret |-> accepts]
    ELSE [task |-> callNext(task, "cb", accepts), ret |-> accepts]

retOf(b) == IF b THEN "true" ELSE "false"

\* loadTileData(_task, _cb) on the caller's thread, `task` being task t as it
\* is passed in.  In offline mode with no next source, next->level reads
\* through a null pointer: the process dies, or the read yields some level and
\* loadNextSource returns false at its null check.
loadTileData(t, task) ==
    /\ IF m_offlineMode THEN
           IF ~next THEN
               \/ /\ crashed' = TRUE
                  /\ tasks' = [tasks EXCEPT ![t] = task]
                  /\ UNCHANGED queue
               \/ \E garbage \in Levels :
                     /\ tasks' = [tasks EXCEPT ![t] =
                                    [task EXCEPT !.rawSource = garbage, !.ret = "false"]]
                     /\ UNCHANGED << crashed, queue >>
           ELSE
               \E accepts \in BOOLEAN :
                  LET r == loadNextSource([task EXCEPT !.rawSource = nextLevel], accepts) IN
                  /\ tasks' = [tasks EXCEPT ![t] = [r.task EXCEPT !.ret = retOf(r.ret)]]
                  /\ UNCHANGED << crashed, queue >>
       ELSE IF ~m_db THEN
           /\ tasks' = [tasks EXCEPT ![t] = [task EXCEPT !.ret = "false"]]
           /\ UNCHANGED << crashed, queue >>
       ELSE IF task.rawSource = level THEN
           /\ queue' = Append(queue, [kind |-> "lookup", task |-> t])
           /\ tasks' = [tasks EXCEPT ![t] = [task EXCEPT !.ret = "true"]]
           /\ UNCHANGED crashed
       ELSE
           \E accepts \in BOOLEAN :
              LET r == loadNextSource(task, accepts) IN
              /\ tasks' = [tasks EXCEPT ![t] = [r.task EXCEPT !.ret = retOf(r.ret)]]
              /\ UNCHANGED << crashed, queue >>
    /\ UNCHANGED << m_offlineMode, m_db, next, map, images, renderRequested,
                    errLog, storeThreads, lastPut, sqlite_master, metadata, opened,
                    putLog >>

\* The first call of loadTileData with task t, for tile `tile` and marked for
\* source `src`; the tasks are submitted in the order of their numbers.
LoadTileData(t, tile, src) ==
    /\ ~crashed
    /\ tasks[t].ret = "none"
    /\ \A u \in Tasks : u < t => tasks[u].ret # "none"
    /\ loadTileData(t, [tasks[t] EXCEPT !.tileId = tile, !.rawSource = src])

\* The lookup work item handing a missed task to the next source without
\* moving its marker to the next source's level
RunLookup_keepMarker(t) ==
    \E throws \in BOOLEAN, accepts \in BOOLEAN :
    \E got \in getTileData(map, images, tasks[t].tileId, throws) :
       LET task == [tasks[t] EXCEPT !.rawTileData = got.data, !.nGet = @ + 1,
                                    !.ioErr = @ \/ throws] IN
       /\ storeThreads' = storeThreads \cup { "worker" }
       /\ IF hasData(task.rawTileData) THEN
              /\ tasks' = [tasks EXCEPT ![t] = callCb(task, "worker")]
              /\ UNCHANGED renderRequested
          ELSE IF next THEN
              LET r == loadNextSource(task, accepts) IN
              IF r.ret THEN
                  /\ tasks' = [tasks EXCEPT ![t] = r.task]
                  /\ UNCHANGED renderRequested
              ELSE
                  /\ tasks' = [tasks EXCEPT ![t] = [r.task EXCEPT !.needsLoading = TRUE]]
                  /\ renderRequested' = TRUE
          ELSE
              /\ tasks' = [tasks EXCEPT ![t] = task]
              /\ UNCHANGED renderRequested
       /\ UNCHANGED << map, images, lastPut >>

\* The work item loadTileData enqueues, run by the worker: look the tile up;
\* on a hit call _cb, else hand the task to the next source if there is one.
RunLookup(t) ==
    \E throws \in BOOLEAN, accepts \in BOOLEAN :
    \E got \in getTileData(map, images, tasks[t].tileId, throws) :
       LET task == [tasks[t] EXCEPT !.rawTileData = got.data, !.nGet = @ + 1,
                                    !.ioErr = @ \/ throws] IN
       /\ storeThreads' = storeThreads \cup { "worker" }
       /\ IF hasData(task.rawTileData) THEN
              /\ tasks' = [tasks EXCEPT ![t] = callCb(task, "worker")]
              /\ UNCHANGED renderRequested
          ELSE IF next THEN
              LET r == loadNextSource([task EXCEPT !.rawSource = nextLevel], accepts) IN
              IF r.ret THEN
                  /\ tasks' = [tasks EXCEPT ![t] = r.task]
                  /\ UNCHANGED renderRequested
              ELSE
                  /\ tasks' = [tasks EXCEPT ![t] = [r.task EXCEPT !.needsLoading = TRUE]]
                  /\ renderRequested' = TRUE
          ELSE
              /\ tasks' = [tasks EXCEPT ![t] = task]
              /\ UNCHANGED renderRequested
       /\ UNCHANGED << map, images, lastPut >>

\* The work item the intercepting callback enqueues for a task with data,
\* run by the worker: storeTileData(_task->tileId(), *task.rawTileData)
RunStore(t) ==
    \E mapThrows \in BOOLEAN, imageThrows \in BOOLEAN :
       LET db == storeTileData(map, images, tasks[t].tileId, tasks[t].rawTileData,
                               mapThrows, imageThrows) IN
       /\ map' = db.map
       /\ images' = db.images
       /\ storeThreads' = storeThreads \cup { "worker" }
       /\ lastPut' = [lastPut EXCEPT ![tasks[t].tileId] = tasks[t].rawTileData]
       /\ tasks' = [tasks EXCEPT ![t].nPut = @ + 1,
                                 ![t].ioErr = @ \/ mapThrows \/ imageThrows]
       /\ UNCHANGED renderRequested

\* The fallback work item calling _cb before it looks the tile up
RunFallback_cbFirst(t) ==
    \E throws \in BOOLEAN :
    \E got \in getTileData(map, images, tasks[t].tileId, throws) :
       LET task == callCb([tasks[t] EXCEPT !.rawTileData = <<>>], "worker") IN
       /\ storeThreads' = storeThreads \cup { "worker" }
       /\ tasks' = [tasks EXCEPT ![t] = [task EXCEPT !.rawTileData = got.data, !.nGet = @ + 1,
                                                     !.ioErr = @ \/ throws]]
       /\ UNCHANGED << map, images, lastPut, renderRequested >>

\* The fallback work item marking a missed task for loading later and asking
\* for a render, instead of calling _cb
RunFallback_needsLoading(t) ==
    \E throws \in BOOLEAN :
    \E got \in getTileData(map, images, tasks[t].tileId, throws) :
       LET task == [tasks[t] EXCEPT !.rawTileData = got.data, !.nGet = @ + 1,
                                    !.ioErr = @ \/ throws] IN
       /\ storeThreads' = storeThreads \cup { "worker" }
       /\ IF hasData(task.rawTileData) THEN
              /\ tasks' = [tasks EXCEPT ![t] = callCb(task, "worker")]
              /\ UNCHANGED renderRequested
          ELSE
              /\ tasks' = [tasks EXCEPT ![t] = [task EXCEPT !.needsLoading = TRUE]]
              /\ renderRequested' = TRUE
       /\ UNCHANGED << map, images, lastPut >>

\* The fallback work item calling _cb without the payload it looked up
RunFallback_dropsData(t) ==
    \E throws \in BOOLEAN :
    \E got \in getTileData(map, images, tasks[t].tileId, throws) :
       LET task == [tasks[t] EXCEPT !.rawTileData = <<>>, !.nGet = @ + 1,
                                    !.ioErr = @ \/ throws] IN
       /\ storeThreads' = storeThreads \cup { "worker" }
       /\ tasks' = [tasks EXCEPT ![t] = callCb(task, "worker")]
       /\ UNCHANGED << map, images, lastPut, renderRequested >>

\* The work item the intercepting callback enqueues in offline mode for a task
\* without data, run by the worker: look the tile up, then call _cb.
RunFallback(t) ==
    \E throws \in BOOLEAN :
    \E got \in getTileData(map, images, tasks[t].tileId, throws) :
       LET task == [tasks[t] EXCEPT !.rawTileData = got.data, !.nGet = @ + 1,
                                    !.ioErr = @ \/ throws] IN
       /\ storeThreads' = storeThreads \cup { "worker" }
       /\ tasks' = [tasks EXCEPT ![t] = callCb(task, "worker")]
       /\ UNCHANGED << map, images, lastPut, renderRequested >>

\* AsyncWorker: the worker thread takes the oldest work item and runs it
WorkerRun ==
    /\ ~crashed
    /\ queue # <<>>
    /\ queue' = Tail(queue)
    /\ LET item == Head(queue) IN
       CASE item.kind = "lookup" -> RunLookup(item.task)
         [] item.kind = "store" -> RunStore(item.task)
         [] item.kind = "fallback" -> RunFallback(item.task)
    /\ UNCHANGED << m_offlineMode, m_db, next, crashed, errLog, sqlite_master, metadata,
                    opened, putLog >>

\* The intercepting callback with the store done by the calling thread
Intercept_storeInline(t, task) ==
    IF hasData(task.rawTileData) THEN
        LET db == storeTileData(map, images, task.tileId, task.rawTileData, FALSE, FALSE) IN
        /\ map' = db.map
        /\ images' = db.images
        /\ lastPut' = [lastPut EXCEPT ![task.tileId] = task.rawTileData]
        /\ storeThreads' = storeThreads \cup { "next" }
        /\ tasks' = [tasks EXCEPT ![t] = callCb([task EXCEPT !.nPut = @ + 1], "next")]
        /\ UNCHANGED queue
    ELSE
        /\ tasks' = [tasks EXCEPT ![t] = callCb(task, "next")]
        /\ UNCHANGED << queue, map, images, lastPut, storeThreads >>

\* The intercepting callback passing data on without enqueueing the store
Intercept_noStore(t, task) ==
    /\ IF ~hasData(task.rawTileData) /\ m_offlineMode THEN
           /\ queue' = Append(queue, [kind |-> "fallback", task |-> t])
           /\ tasks' = [tasks EXCEPT ![t] = task]
       ELSE
           /\ queue' = queue
           /\ tasks' = [tasks EXCEPT ![t] = callCb(task, "next")]
    /\ UNCHANGED << map, images, lastPut, storeThreads >>

\* The intercepting callback handing every call of _cb to the worker
Intercept_cbOnWorker(t, task) ==
    /\ IF hasData(task.rawTileData) THEN
           /\ queue' = Append(queue, [kind |-> "store", task |-> t])
           /\ tasks' = [tasks EXCEPT ![t] = callCb(task, "worker")]
       ELSE IF m_offlineMode THEN
           /\ queue' = Append(queue, [kind |-> "fallback", task |-> t])
           /\ tasks' = [tasks EXCEPT ![t] = task]
       ELSE
           /\ queue' = queue
           /\ tasks' = [tasks EXCEPT ![t] = callCb(task, "worker")]
    /\ UNCHANGED << map, images, lastPut, storeThreads >>

\* The intercepting callback cb of loadNextSource, called by the next source
\* on the next source's thread with the task it has finished.
Intercept(t, task) ==
    /\ IF hasData(task.rawTileData) THEN
           /\ queue' = Append(queue, [kind |-> "store", task |-> t])
           /\ tasks' = [tasks EXCEPT ![t] = callCb(task, "next")]
       ELSE IF m_offlineMode THEN
           /\ queue' = Append(queue, [kind |-> "fallback", task |-> t])
           /\ tasks' = [tasks EXCEPT ![t] = task]
       ELSE
           /\ queue' = queue
           /\ tasks' = [tasks EXCEPT ![t] = callCb(task, "next")]
    /\ UNCHANGED << map, images, lastPut, storeThreads >>

\* The next source finishes a task it accepted, with a payload or without one,
\* and calls the callback it was given: the caller's _cb, or the intercepting cb.
NextRespond(t, result) ==
    /\ ~crashed
    /\ tasks[t].atNext # "no"
    /\ LET task == [tasks[t] EXCEPT !.atNext = "no", !.nextDone = TRUE,
                                    !.nextData = result,
                                    !.rawTileData = IF result = NoData THEN @ ELSE result] IN
       IF tasks[t].atNext = "_cb" THEN
           /\ tasks' = [tasks EXCEPT ![t] = callCb(task, "next")]
           /\ UNCHANGED << queue, map, images, lastPut, storeThreads >>
       ELSE Intercept(t, task)
    /\ UNCHANGED << m_offlineMode, m_db, next, renderRequested, crashed, errLog,
                    sqlite_master, metadata, opened, putLog >>

Next ==
    \/ \E t \in Tasks, tile \in TileIDs, src \in Levels : LoadTileData(t, tile, src)
    \/ WorkerRun
    \/ \E t \in Tasks, result \in { NoData } \cup NextPayloads : NextRespond(t, result)

Spec == Init /\ [][Next]_vars

(* --------------------- the store operations alone ---------------------- *)

\* a source whose database opened, before any request
InitStore ==
    /\ Init
    /\ m_db
    /\ ~m_offlineMode
    /\ ~next

\* storeTileData(tile, data) called on the open database
StoreTile(tile, data, mapThrows, imageThrows) ==
    /\ m_db
    /\ LET db == storeTileData(map, images, tile, data, mapThrows, imageThrows) IN
       /\ map' = db.map
       /\ images' = db.images
    /\ errLog' = errLog \cup storeErrors(mapThrows, imageThrows)
    /\ lastPut' = [lastPut EXCEPT ![tile] = data]
    /\ storeThreads' = storeThreads \cup { "worker" }
    /\ UNCHANGED << m_offlineMode, m_db, next, queue, tasks, renderRequested, crashed,
                    sqlite_master, metadata, opened >>

NextStore ==
    \E tile \in TileIDs, data \in Blobs, mapThrows \in BOOLEAN, imageThrows \in BOOLEAN :
        StoreTile(tile, data, mapThrows, imageThrows) /\ UNCHANGED putLog

SpecStore == InitStore /\ [][NextStore]_vars

\* the worker thread runs the queued work items as long as there are any
SpecFair == Spec /\ WF_vars(WorkerRun)

(* ------------------------------ the claims ----------------------------- *)

Submitted(t) == tasks[t].ret # "none"

\* work for the task is still outstanding: the next source holds it, or a
\* lookup of it is queued
Pending(t) ==
    \/ tasks[t].atNext # "no"
    \/ \E i \in 1..Len(queue) :
          queue[i].task = t /\ queue[i].kind \in { "lookup", "fallback" }

\* nothing more will happen to the task
Finished(t) == Submitted(t) /\ ~Pending(t) /\ ~crashed

\* the store holds payload `data` for the tile: a map row of the tile's stored
\* address joins an images row with that payload, and no other
Holds(tile, data) == selectTileData(map, images, tile) = { data }

\* the worker runs a lookup of the tile of task t in this step
LooksUp(t) == tasks'[t].nGet = tasks[t].nGet + 1

\* C1: every request loadTileData was called with gets the caller's callback
\* exactly once.  Stated for the requests loadTileData accepted (returned
\* true), once nothing is outstanding for them: the callback has been called
\* once, and it is never called more than once.
C1_CallbackExactlyOnce ==
    \A t \in Tasks :
        /\ Len(tasks[t].cbs) <= 1
        /\ (Finished(t) /\ tasks[t].ret = "true") => Len(tasks[t].cbs) = 1

\* C3: with the database not opened and offline mode off, a request is handed
\* to the next source, and the store is neither read nor written.
C3_ChainFallback ==
    \A t \in Tasks :
        (~m_db /\ ~m_offlineMode /\ next /\ Submitted(t))
            => /\ tasks[t].nNext = 1
               /\ tasks[t].nGet = 0
               /\ tasks[t].nPut = 0

\* C7: round trip.  While no store statement has thrown, getTileData of any
\* tile that storeTileData was called for returns true with the bytes of the
\* latest call for that tile, whatever was stored for other tiles.
C7_RoundTrip ==
    errLog = {} =>
        \A tile \in TileIDs :
            lastPut[tile] # NoData =>
                getTileData(map, images, tile, FALSE)
                    = { [ret |-> TRUE, data |-> lastPut[tile]] }

\* C7 witness: two tiles hold different payloads and the first still reads back
C7_Witness ==
    /\ errLog = {}
    /\ \E a \in TileIDs, b \in TileIDs :
          /\ a # b
          /\ lastPut[a] \in Blobs
          /\ lastPut[b] \in Blobs
          /\ lastPut[a] # lastPut[b]
          /\ getTileData(map, images, a, FALSE) = { [ret |-> TRUE, data |-> lastPut[a]] }

\* the map rows of a tile's stored address
mapRows(tile) ==
    { r \in map : /\ r.zoom_level = tile.z
                  /\ r.tile_column = tile.x
                  /\ r.tile_row = tmsRow(tile.z, tile.y) }

\* C8: deduplication.  While no store statement has thrown, two different tiles
\* last stored with the same bytes share one images row: images holds exactly
\* one row with that content, both map rows carry the same digest, and both
\* tiles read back that content.
C8_Dedup ==
    errLog = {} =>
        \A a \in TileIDs, b \in TileIDs :
            (a # b /\ lastPut[a] # NoData /\ lastPut[a] = lastPut[b]) =>
                /\ Cardinality({ i \in images : i.tile_data = lastPut[a] }) = 1
                /\ Cardinality(mapRows(a)) = 1
                /\ Cardinality(mapRows(b)) = 1
                /\ { r.tile_id : r \in mapRows(a) } = { r.tile_id : r \in mapRows(b) }
                /\ Holds(a, lastPut[a])
                /\ Holds(b, lastPut[a])

\* C8 witness: two tiles stored with the same non-empty bytes, one images row
C8_Witness ==
    /\ errLog = {}
    /\ \E a \in TileIDs, b \in TileIDs :
          /\ a # b
          /\ lastPut[a] = lastPut[b]
          /\ hasData(lastPut[a])
          /\ Cardinality({ i \in images : i.tile_data = lastPut[a] }) = 1

\* loadTileData is called with task t in this step
Submits(t) == tasks[t].ret = "none" /\ tasks'[t].ret # "none"

\* the next source finishes task t in this step
NextFinishes(t) == ~tasks[t].nextDone /\ tasks'[t].nextDone

\* the worker runs the store work item of task t in this step
Puts(t) == tasks'[t].nPut = tasks[t].nPut + 1

\* C2: online write-through.  With the database open, once the next source
\* has finished a request with payload B, the caller's callback has been called
\* once with B; (the worker running its queue) the put of every such request
\* eventually runs: from every point of a run a point is reached where all of
\* them have run; and when one runs without a thrown statement the store
\* holds B for the request's tile.
C2_WriteThrough ==
    /\ [](\A t \in Tasks :
            (m_db /\ hasData(tasks[t].nextData)) =>
                tasks[t].cbs = << [thread |-> "next", data |-> tasks[t].nextData] >>)
    /\ []<>(\A t \in Tasks :
              (m_db /\ hasData(tasks[t].nextData)) => tasks[t].nPut = 1)
    /\ [][\A t \in Tasks :
            (Puts(t) /\ ~tasks'[t].ioErr)
                => /\ hasData(tasks[t].nextData)
                   /\ Holds(tasks[t].tileId, tasks[t].nextData)']_vars

\* C2 witness: online, a request marked for this source missed the store, the
\* next source answered with B, the caller got B and the store now holds B
C2_Witness ==
    \E t \in Tasks :
        /\ ~m_offlineMode
        /\ m_db
        /\ tasks[t].nGet = 1
        /\ hasData(tasks[t].nextData)
        /\ tasks[t].nPut = 1
        /\ ~tasks[t].ioErr
        /\ tasks[t].cbs = << [thread |-> "next", data |-> tasks[t].nextData] >>
        /\ Holds(tasks[t].tileId, tasks[t].nextData)

\* C4: online cache hit.  With offline mode off, when the worker looks up a
\* request marked for this source, the store holds payload B for its tile and
\* the statement does not throw, the caller's callback is called with B; and a
\* request whose callback the worker called is never given to the next source.
C4_OnlineHit ==
    /\ [][\A t \in Tasks : \A B \in NextPayloads :
            (/\ ~m_offlineMode
             /\ tasks[t].rawSource = level
             /\ LooksUp(t)
             /\ Holds(tasks[t].tileId, B)
             /\ ~tasks'[t].ioErr)
                => /\ tasks'[t].cbs = << [thread |-> "worker", data |-> B] >>
                   /\ tasks'[t].nNext = 0
                   /\ tasks'[t].atNext = "no"]_vars
    /\ [](\A t \in Tasks :
            (~m_offlineMode /\ tasks[t].cbs # <<>> /\ tasks[t].cbs[1].thread = "worker")
                => /\ tasks[t].nNext = 0
                   /\ tasks[t].atNext = "no"
                   /\ tasks[t].nPut = 0)

\* C4 witness: online, a request was served from the store, the next source
\* was not called for it
C4_Witness ==
    \E t \in Tasks :
        /\ ~m_offlineMode
        /\ tasks[t].nGet = 1
        /\ Len(tasks[t].cbs) = 1
        /\ tasks[t].cbs[1].thread = "worker"
        /\ hasData(tasks[t].cbs[1].data)
        /\ tasks[t].nNext = 0

\* C5 as claimed: in offline mode a request for a tile the store holds is
\* served without next->loadTileData being called for it.
C5_OfflineHitWithoutNext ==
    [][\A t \in Tasks :
         (/\ m_offlineMode
          /\ Submits(t)
          /\ \E B \in NextPayloads : Holds(tasks'[t].tileId, B))
             => tasks'[t].nNext = 0]_vars

\* C5 amended: in offline mode with the database open and a next source,
\* loadTileData gives the request to the next source first (one call of
\* next->loadTileData, the marker moved to the next level, no lookup enqueued);
\* when the next source finishes it without data the worker looks the tile up
\* once, and if the store holds B and the statement does not throw the caller
\* receives B; when the next source finishes it with a payload the caller
\* receives that payload.
C5_OfflineHitAfterNext ==
    [][\A t \in Tasks :
         (m_offlineMode /\ m_db /\ next) =>
            /\ Submits(t) =>
                  /\ tasks'[t].nNext = 1
                  /\ tasks'[t].rawSource = nextLevel
                  /\ queue' = queue
            /\ \A B \in NextPayloads :
                  (LooksUp(t) /\ Holds(tasks[t].tileId, B) /\ ~tasks'[t].ioErr)
                      => /\ tasks[t].nextDone
                         /\ tasks[t].nextData = NoData
                         /\ tasks'[t].nGet = 1
                         /\ tasks'[t].cbs = << [thread |-> "worker", data |-> B] >>
            /\ (NextFinishes(t) /\ hasData(tasks'[t].nextData))
                  => tasks'[t].cbs = << [thread |-> "next", data |-> tasks'[t].nextData] >>]_vars

\* C5 witness: offline, the next source finished the request without data and
\* the caller then received the stored payload
C5_Witness ==
    \E t \in Tasks :
        /\ m_offlineMode
        /\ tasks[t].nNext = 1
        /\ tasks[t].nextDone
        /\ tasks[t].nextData = NoData
        /\ Len(tasks[t].cbs) = 1
        /\ tasks[t].cbs[1].thread = "worker"
        /\ hasData(tasks[t].cbs[1].data)

\* C6 as claimed: in offline mode a request that no source satisfies (the next
\* source finished it without data and the lookup missed) ends marked as
\* needing loading with a render requested.
C6_OfflineMissNeedsLoading ==
    \A t \in Tasks :
        (/\ m_offlineMode
         /\ Finished(t)
         /\ tasks[t].nextDone
         /\ tasks[t].nGet = 1
         /\ ~tasks[t].ioErr
         /\ ~hasData(tasks[t].rawTileData))
            => tasks[t].needsLoading /\ renderRequested

\* C6 amended: in offline mode no request is marked as needing loading and no
\* render is requested; a request the next source finished without data and
\* whose tile the store lacks ends with the caller's callback called once, by
\* the worker, with no data.  The mark and the render request are made only
\* with offline mode off, for a request that missed the store and that the
\* next source refused, and then the callback is not called.
C6_OfflineMissCallsBack ==
    /\ m_offlineMode => ~renderRequested
    /\ \A t \in Tasks :
          /\ m_offlineMode => ~tasks[t].needsLoading
          /\ (/\ m_offlineMode
              /\ Finished(t)
              /\ tasks[t].nextDone
              /\ tasks[t].nGet = 1
              /\ ~hasData(tasks[t].rawTileData))
                 => tasks[t].cbs = << [thread |-> "worker", data |-> NoData] >>
          /\ tasks[t].needsLoading =>
                /\ renderRequested
                /\ tasks[t].nGet = 1
                /\ tasks[t].nNext = 1
                /\ tasks[t].atNext = "no"
                /\ tasks[t].rawSource = nextLevel
                /\ tasks[t].cbs = <<>>

\* C6 witness: offline, next source without data, lookup missed, callback
\* called with no data
C6_Witness ==
    \E t \in Tasks :
        /\ m_offlineMode
        /\ Finished(t)
        /\ tasks[t].nextDone
        /\ tasks[t].nGet = 1
        /\ ~tasks[t].ioErr
        /\ tasks[t].cbs = << [thread |-> "worker", data |-> NoData] >>

\* the tasks whose store work item for the tile has run
Putters(tile) == { t \in Tasks : tasks[t].tileId = tile /\ tasks[t].nPut = 1 }

\* C9: concurrent requests for one tile.  While no store statement has
\* thrown, once the puts of two requests for the same tile have both run, the
\* tile's single map row carries the digest of the payload of the put that ran
\* last, images holds the row of each request's digest with its own bytes, and
\* the tile reads back exactly one of the payloads.
C9_LastWriteWins ==
    (\A p \in Tasks : ~tasks[p].ioErr) =>
        \A t \in Tasks, u \in Tasks :
            (t # u /\ tasks[t].tileId = tasks[u].tileId /\ tasks[t].nPut = 1 /\ tasks[u].nPut = 1)
                => LET tile == tasks[t].tileId IN
                   /\ lastPut[tile] \in { tasks[p].nextData : p \in Putters(tile) }
                   /\ { r.tile_id : r \in mapRows(tile) } = { md5(lastPut[tile]) }
                   /\ Cardinality(mapRows(tile)) = 1
                   /\ \A p \in { t, u } :
                         { i \in images : i.tile_id = md5(tasks[p].nextData) }
                             = { [tile_id |-> md5(tasks[p].nextData),
                                  tile_data |-> tasks[p].nextData] }
                   /\ Holds(tile, lastPut[tile])

\* C9 witness: two requests for one tile answered with different payloads,
\* both puts run
C9_Witness ==
    /\ \A p \in Tasks : ~tasks[p].ioErr
    /\ \E t \in Tasks, u \in Tasks :
          /\ tasks[t].tileId = tasks[u].tileId
          /\ tasks[t].nPut = 1
          /\ tasks[u].nPut = 1
          /\ tasks[t].nextData # tasks[u].nextData
          /\ Cardinality(images) = 2

\* C10: getTileData and storeTileData run only on the worker, for the oldest
\* queued work item, which that step removes; the queue otherwise only grows at
\* its end.
C10_StoreOnWorkerInOrder ==
    /\ [](storeThreads \subseteq { "worker" })
    /\ [][/\ \/ queue' = queue
             \/ queue # <<>> /\ queue' = Tail(queue)
             \/ Len(queue') = Len(queue) + 1 /\ SubSeq(queue', 1, Len(queue)) = queue
          /\ \A t \in Tasks :
                (tasks'[t].nGet # tasks[t].nGet \/ tasks'[t].nPut # tasks[t].nPut)
                    => /\ queue # <<>>
                       /\ Head(queue).task = t
                       /\ queue' = Tail(queue)
          /\ (map' # map \/ images' # images)
                => /\ queue # <<>>
                   /\ Head(queue).kind = "store"
                   /\ queue' = Tail(queue)]_vars

\* C10 witness: a queued store waits behind a queued lookup after the worker
\* has already run a store operation
C10_Witness ==
    /\ storeThreads = { "worker" }
    /\ Len(queue) = 2
    /\ queue[1].kind = "lookup"
    /\ queue[2].kind = "store"

\* C11: with no next source a request this source cannot satisfy is failed
\* cleanly in every mode: the process does not die, and a request that ends
\* without a callback had loadTileData return false.
C11_NoNextFailsCleanly ==
    /\ ~crashed
    /\ \A t \in Tasks :
          (~next /\ Finished(t) /\ tasks[t].cbs = <<>>) => tasks[t].ret = "false"

(* ------------------------ constructions on one path -------------------- *)

\* a path that holds no file, before any source is constructed on it
InitOpen ==
    /\ m_offlineMode = FALSE
    /\ m_db = FALSE
    /\ next = FALSE
    /\ sqlite_master = {}
    /\ metadata = {}
    /\ opened = <<>>
    /\ map = {}
    /\ images = {}
    /\ queue = <<>>
    /\ tasks = [t \in Tasks |-> NewTask]
    /\ renderRequested = FALSE
    /\ crashed = FALSE
    /\ errLog = {}
    /\ storeThreads = {}
    /\ lastPut = [tile \in TileIDs |-> NoData]
    /\ putLog = {}

\* MBTilesDataSource(_name, _path, _mime, _offlineCache) on the path: the
\* source constructed before, if any, is gone; m_db is the new source's.
Construct(_name, checkThrows, fault) ==
    /\ Len(opened) < MaxOpens
    /\ LET db == setupMBTiles(sqlite_master, metadata, _name, m_mime, checkThrows, fault) IN
       /\ m_db' = db.m_db
       /\ sqlite_master' = db.master
       /\ metadata' = db.meta
    /\ opened' = Append(opened, Opened(_name, sqlite_master, checkThrows, fault))
    /\ UNCHANGED << m_offlineMode, next, map, images, queue, tasks, renderRequested,
                    crashed, errLog, storeThreads, lastPut, putLog >>

NextOpen ==
    \/ \E _name \in Names, checkThrows \in BOOLEAN, fault \in Faults :
          Construct(_name, checkThrows, fault)
    \/ \E tile \in TileIDs, data \in NextPayloads :
          StoreTile(tile, data, FALSE, FALSE) /\ UNCHANGED putLog

SpecOpen == InitOpen /\ [][NextOpen]_vars

\* a construction happens in this step
Constructs == Len(opened') = Len(opened) + 1

\* the rows of metadata named 'name'
nameRows == { r \in metadata : r.name = "name" }

\* C12: idempotent schema install.  metadata never holds two rows named
\* 'name'.  When the first construction on the empty path (with name N1) ran
\* without a throw and no later schema check threw, the one row named 'name'
\* holds N1 whatever names the later constructions were given, and all six
\* rows are those of the first construction.  A construction whose check finds
\* the schema complete changes neither the schema, nor metadata, nor a tile.
C12_IdempotentInstall ==
    /\ [](Cardinality(nameRows) <= 1)
    /\ []((/\ Len(opened) >= 1
           /\ opened[1].clean
           /\ \A i \in 2..Len(opened) : ~opened[i].checkThrew)
              => /\ nameRows = { [name |-> "name", value |-> opened[1].name] }
                 /\ metadata = { MetadataRows(opened[1].name, m_mime)[j] : j \in 1..6 })
    /\ [][(Constructs /\ opened'[Len(opened')].sawComplete)
            => /\ metadata' = metadata
               /\ sqlite_master' = sqlite_master
               /\ map' = map
               /\ images' = images]_vars

\* C12 witness: constructed with N1, a tile stored, constructed again with N2;
\* the name row holds N1 and the tile is still held
C12_Witness ==
    /\ Len(opened) = 2
    /\ opened[1].name = "N1" /\ opened[1].clean
    /\ opened[2].name = "N2" /\ opened[2].sawComplete
    /\ nameRows = { [name |-> "name", value |-> "N1"] }
    /\ \E tile \in TileIDs : Holds(tile, << 1 >>)

(* ----------------------- the row flip over the zooms ------------------- *)

\* the largest supported zoom: 1 << z and (1 << z) - 1 - y stay within int
MaxZoom == 30

\* zooms up to this one are taken with all their rows
MaxFullZoom == 2

\* number of storeTileData calls in one run over these tiles
MaxRowPuts == 2

\* the rows taken at a zoom: all of them at the small zooms, the first and the
\* last at the others
RowsAt(z) == IF z <= MaxFullZoom THEN 0..(Pow2(z) - 1) ELSE { 0, Pow2(z) - 1 }

\* TileID {x, y, z} over the supported zooms
RowTiles == UNION { { [z |-> z, x |-> 0, y |-> y] : y \in RowsAt(z) } : z \in 0..MaxZoom }

\* an open, empty database, with tiles of all supported zooms to store
InitRow ==
    /\ m_offlineMode = FALSE
    /\ next = FALSE
    /\ LET db == setupMBTiles({}, {}, "N1", m_mime, FALSE, [at |-> "none", n |-> 0]) IN
       /\ m_db = db.m_db
       /\ sqlite_master = db.master
       /\ metadata = db.meta
       /\ opened = << Opened("N1", {}, FALSE, [at |-> "none", n |-> 0]) >>
    /\ map = {}
    /\ images = {}
    /\ queue = <<>>
    /\ tasks = [t \in Tasks |-> NewTask]
    /\ renderRequested = FALSE
    /\ crashed = FALSE
    /\ errLog = {}
    /\ storeThreads = {}
    /\ lastPut = [tile \in RowTiles |-> NoData]
    /\ putLog = {}

NextRow ==
    \E tile \in RowTiles :
        /\ Cardinality(map) < MaxRowPuts
        /\ StoreTile(tile, << 1 >>, FALSE, FALSE)
        /\ UNCHANGED putLog

SpecRow == InitRow /\ [][NextRow]_vars

\* C13: the row flip is an involution on the rows of every supported zoom and
\* maps them into 0..2^z-1; storeTileData and getTileData apply the same flip:
\* every map row lies within its zoom and is the flipped row of a tile that
\* was stored, the tiles that were stored read back and no other tile does.
C13_RowFlipInvolution ==
    /\ \A tile \in RowTiles :
          /\ tmsRow(tile.z, tmsRow(tile.z, tile.y)) = tile.y
          /\ tmsRow(tile.z, tile.y) \in 0..(Pow2(tile.z) - 1)
          /\ lastPut[tile] # NoData =>
                /\ mapRows(tile) # {}
                /\ getTileData(map, images, tile, FALSE)
                       = { [ret |-> TRUE, data |-> lastPut[tile]] }
          /\ lastPut[tile] = NoData =>
                getTileData(map, images, tile, FALSE) = { [ret |-> FALSE, data |-> <<>>] }
    /\ \A r \in map :
          /\ r.tile_row \in 0..(Pow2(r.zoom_level) - 1)
          /\ \E tile \in RowTiles :
                /\ lastPut[tile] # NoData
                /\ tile.z = r.zoom_level
                /\ tile.x = r.tile_column
                /\ tile.y = Pow2(r.zoom_level) - 1 - r.tile_row

\* C13 witness: row 0 of the largest zoom was stored at row 2^30 - 1 and reads
\* back, next to a stored tile of another zoom
C13_Witness ==
    /\ Cardinality(map) = 2
    /\ \E r \in map : r.zoom_level = MaxZoom /\ r.tile_row = 1073741823
    /\ Holds([z |-> MaxZoom, x |-> 0, y |-> 0], << 1 >>)

Delegated(t) ==
    /\ ~m_offlineMode
    /\ Submitted(t)
    /\ tasks[t].rawSource = nextLevel
    /\ tasks[t].nGet = 0

C15_InstallFailureDisables ==
    /\ (Len(opened) >= 1 /\ opened[Len(opened)].installThrew) => ~m_db
    /\ m_db => /\ Required \subseteq sqlite_master
               /\ { r.name : r \in metadata }
                     = { MetadataRows("N1", m_mime)[j].name : j \in 1..6 }

(* ------------------------ puts with their history ---------------------- *)

\* number of different [tile, data] storeTileData is called with in one run
MaxPuts == 3

\* storeTileData(tile, data) on the open database, logged
PutTile(tile, data, mapThrows, imageThrows) ==
    /\ Cardinality(putLog \cup { [tile |-> tile, data |-> data] }) <= MaxPuts
    /\ StoreTile(tile, data, mapThrows, imageThrows)
    /\ putLog' = putLog \cup { [tile |-> tile, data |-> data] }

NextPut ==
    \E tile \in TileIDs, data \in Blobs, mapThrows \in BOOLEAN, imageThrows \in BOOLEAN :
        PutTile(tile, data, mapThrows, imageThrows)

SpecPut == InitStore /\ [][NextPut]_vars

\* the map rows of the tile's address all point to digests images lacks
Dangling(tile) ==
    /\ mapRows(tile) # {}
    /\ \A r \in mapRows(tile) : \A i \in images : i.tile_id # r.tile_id

\* C16: best-effort put.  The two statements of storeTileData are independent:
\* when the map statement throws the images row is still written and map is
\* left as it was, and when the images statement throws the map row is still
\* written and images is left as it was.  Whatever has thrown, getTileData of
\* any tile has one outcome: a miss, or bytes that storeTileData was called
\* with for that tile.  A map row whose digest has no images row reads as a
\* miss, as does a lookup that throws.
C16_BestEffortPut ==
    /\ [][\A tile \in TileIDs, data \in Blobs :
            /\ PutTile(tile, data, TRUE, FALSE)
                  => /\ map' = map
                     /\ [tile_id |-> md5(data), tile_data |-> data] \in images'
            /\ PutTile(tile, data, FALSE, TRUE)
                  => /\ images' = images
                     /\ mapRows(tile)' = { [zoom_level |-> tile.z, tile_column |-> tile.x,
                                            tile_row |-> tmsRow(tile.z, tile.y),
                                            tile_id |-> md5(data)] }]_vars
    /\ [](\A tile \in TileIDs :
            /\ Cardinality(getTileData(map, images, tile, FALSE)) = 1
            /\ \A got \in getTileData(map, images, tile, FALSE) :
                  IF got.ret THEN [tile |-> tile, data |-> got.data] \in putLog
                  ELSE got.data = <<>>
            /\ Dangling(tile) =>
                  getTileData(map, images, tile, FALSE) = { [ret |-> FALSE, data |-> <<>>] }
            /\ getTileData(map, images, tile, TRUE) = { [ret |-> FALSE, data |-> <<>>] })

\* C16 witness: a put whose images statement threw left a map row with no
\* images row, which reads as a miss, while the other tile, whose put ran after
\* a put with a thrown map statement, reads back its bytes
C16_Witness ==
    /\ errLog = { "put map", "put image" }
    /\ \E a \in TileIDs, b \in TileIDs :
          /\ Dangling(a)
          /\ getTileData(map, images, a, FALSE) = { [ret |-> FALSE, data |-> <<>>] }
          /\ \E data \in Blobs : hasData(data) /\ Holds(b, data)

\* the next source has finished task t without data, in offline mode with the
\* database open
FellBack(t) ==
    /\ m_offlineMode
    /\ m_db
    /\ tasks[t].nextDone
    /\ tasks[t].nextData = NoData

\* C17: offline last-resort fallback.  In offline mode with the database open,
\* when the next source finishes a request without data, a fallback item is
\* enqueued and the callback is not called yet; the worker (running its
\* queue) looks the tile up exactly once and then calls the caller's callback
\* exactly once: with the stored payload when the store holds one and the
\* statement does not throw, with no data when the store has none; no put is
\* ever enqueued or run for the request.
C17_OfflineFallback ==
    /\ [][\A t \in Tasks :
            (m_offlineMode /\ m_db) =>
               /\ (NextFinishes(t) /\ tasks'[t].nextData = NoData) =>
                     /\ queue' = Append(queue, [kind |-> "fallback", task |-> t])
                     /\ tasks'[t].cbs = <<>>
                     /\ tasks'[t].nGet = 0
               /\ LooksUp(t) =>
                     /\ FellBack(t)
                     /\ tasks[t].nGet = 0
                     /\ tasks[t].cbs = <<>>
                     /\ Len(tasks'[t].cbs) = 1
                     /\ tasks'[t].cbs[1].thread = "worker"
                     /\ \A B \in NextPayloads :
                           (Holds(tasks[t].tileId, B) /\ ~tasks'[t].ioErr)
                               => tasks'[t].cbs[1].data = B
                     /\ selectTileData(map, images, tasks[t].tileId) = {}
                           => tasks'[t].cbs[1].data = NoData]_vars
    /\ [](\A t \in Tasks :
            FellBack(t) =>
               /\ tasks[t].nPut = 0
               /\ \A i \in 1..Len(queue) :
                     queue[i].task = t => queue[i].kind = "fallback"
               /\ tasks[t].nGet <= 1
               /\ tasks[t].nGet = Len(tasks[t].cbs))
    /\ []<>(\A t \in Tasks :
              FellBack(t) => (tasks[t].nGet = 1 /\ Len(tasks[t].cbs) = 1))

\* C17 witness: offline, one request was written through, another request
\* for the same tile was finished without data by the next source and got the
\* stored payload from the fallback lookup, with no put of its own
C17_Witness ==
    \E t \in Tasks, u \in Tasks :
        /\ FellBack(t)
        /\ tasks[u].nPut = 1
        /\ tasks[t].nGet = 1
        /\ tasks[t].nPut = 0
        /\ tasks[t].cbs = << [thread |-> "worker", data |-> tasks[u].nextData] >>

\* C18 as claimed: every call of the caller's callback that this source makes
\* (all of them, when the database is open) is made by the worker.
C18_CallbackOnWorker ==
    m_db => \A t \in Tasks : \A i \in 1..Len(tasks[t].cbs) :
                tasks[t].cbs[i].thread = "worker"

\* C18 amended: with the database open, the caller's callback is called by
\* the worker exactly when the call follows a store lookup, that is for a
\* store hit with offline mode off and for the offline fallback; it is called
\* on the thread on which the next source delivers its result when the next
\* source finished the request with data, and when it finished the request
\* without data with offline mode off.  loadTileData itself never calls it.
C18_CallbackThreads ==
    /\ [](m_db => \A t \in Tasks : \A i \in 1..Len(tasks[t].cbs) :
            /\ tasks[t].cbs[i].thread \in { "worker", "next" }
            /\ tasks[t].cbs[i].thread = "worker" <=>
                  /\ tasks[t].nGet = 1
                  /\ IF m_offlineMode THEN FellBack(t)
                     ELSE ~tasks[t].nextDone /\ hasData(tasks[t].cbs[i].data)
            /\ tasks[t].cbs[i].thread = "next" <=>
                  /\ tasks[t].nextDone
                  /\ hasData(tasks[t].nextData) \/ ~m_offlineMode)
    /\ [][\A t \in Tasks : Submits(t) => tasks'[t].cbs = tasks[t].cbs]_vars

\* C18 witness: with the database open and offline mode off, one request was
\* answered from the store by the worker and another, answered with data by
\* the next source, had its callback called on the next source's thread
C18_Witness ==
    /\ m_db
    /\ ~m_offlineMode
    /\ \E t \in Tasks, u \in Tasks :
          /\ Len(tasks[t].cbs) = 1
          /\ tasks[t].cbs[1].thread = "worker"
          /\ Len(tasks[u].cbs) = 1
          /\ tasks[u].cbs[1].thread = "next"
          /\ hasData(tasks[u].cbs[1].data)

\* the row storeTileData writes to map for a tile and a payload
mapRow(tile, data) ==
    [zoom_level |-> tile.z, tile_column |-> tile.x,
     tile_row |-> tmsRow(tile.z, tile.y), tile_id |-> md5(data)]

\* C19: store invariant.  After any puts, thrown statements or not, map holds
\* at most one row per address and images at most one row per digest, each
\* with the bytes of that digest.  A put for a tile leaves the map rows of
\* every other address as they were, adds at most its own map row and its own
\* images row, and removes or alters no images row: blobs are never changed
\* after insertion.
C19_StoreInvariant ==
    /\ [](/\ \A a \in map, b \in map :
                (/\ a.zoom_level = b.zoom_level
                 /\ a.tile_column = b.tile_column
                 /\ a.tile_row = b.tile_row) => a = b
          /\ \A i \in images, j \in images : i.tile_id = j.tile_id => i = j
          /\ \A i \in images : i.tile_id = md5(i.tile_data))
    /\ [][\A tile \in TileIDs, data \in Blobs, mapThrows \in BOOLEAN, imageThrows \in BOOLEAN :
            StoreTile(tile, data, mapThrows, imageThrows) =>
               /\ \A other \in TileIDs \ { tile } : mapRows(other)' = mapRows(other)
               /\ map' \subseteq map \cup { mapRow(tile, data) }
               /\ ~mapThrows => mapRows(tile)' = { mapRow(tile, data) }
               /\ images \subseteq images'
               /\ images' \subseteq images \cup { [tile_id |-> md5(data), tile_data |-> data] }]_vars

\* C19 witness: a tile was stored twice with different content while the other
\* tile is stored too: one map row each, and an images row for each of three
\* digests, of which the replaced one is still there
C19_Witness ==
    /\ \A tile \in TileIDs : Cardinality(mapRows(tile)) = 1
    /\ Cardinality(images) = 3
    /\ Cardinality({ r.tile_id : r \in map }) = 2

(* ------------------------- requests tried again ------------------------ *)

\* number of times one task is given to loadTileData again
MaxRetries == 1

\* A task that was marked as needing loading is given to loadTileData again,
\* as it is: its marker is the one this source left on it.
Reload(t) ==
    /\ ~crashed
    /\ tasks[t].needsLoading
    /\ tasks[t].nRetry < MaxRetries
    /\ loadTileData(t, [tasks[t] EXCEPT !.needsLoading = FALSE, !.nRetry = @ + 1])

NextRetry ==
    \/ Next
    \/ \E t \in Tasks : Reload(t)

SpecRetry == Init /\ [][NextRetry]_vars

\* the lookup items queued for task t
QueuedLookups(t) ==
    { i \in 1..Len(queue) : queue[i].task = t /\ queue[i].kind = "lookup" }

\* C20: no retry loop.  Whenever next->loadTileData is called with a request,
\* its marker is the next source's level at that moment; so a request that is
\* given to loadTileData again goes to the next source and gets no second
\* lookup here: for every request at most one lookup item is ever enqueued,
\* and a request loaded again has no lookup queued.
C20_NoRetryLoop ==
    /\ [][\A t \in Tasks :
            /\ tasks'[t].nNext = tasks[t].nNext + 1 => tasks'[t].rawSource = nextLevel
            /\ (tasks[t].needsLoading /\ tasks'[t].nRetry = tasks[t].nRetry + 1)
                  => /\ tasks[t].rawSource = nextLevel
                     /\ tasks'[t].nNext = tasks[t].nNext + 1
                     /\ queue' = queue]_vars
    /\ [](\A t \in Tasks :
            /\ tasks[t].nGet + Cardinality(QueuedLookups(t)) <= 1
            /\ tasks[t].nRetry > 0 => QueuedLookups(t) = {})

\* C20 witness: a request missed the store, the next source refused it, it was
\* loaded again and went to the next source, which answered with data
C20_Witness ==
    \E t \in Tasks :
        /\ tasks[t].nRetry = 1
        /\ tasks[t].nGet = 1
        /\ tasks[t].nNext = 2
        /\ tasks[t].rawSource = nextLevel
        /\ hasData(tasks[t].nextData)
        /\ Len(tasks[t].cbs) = 1

====
